---- MODULE Spec2Model ----
(***************************************************************************)
(* gin-cage: an ip rate limiter for gin whose token bucket lives in redis. *)
(*                                                                         *)
(* The model follows the constructors of the bucket                        *)
(* (src/unnamed/part_000:77-131), RedisBucket.Walk (part_000:141-223) and  *)
(* what limiter.WalkThrough makes of its error (part_001:73-85).           *)
(* Every redis round trip of Walk (WATCH, GET, MULTI/SET/EXEC) and every   *)
(* reading of the wall clock (time.Since, time.Now) is one step of a       *)
(* caller, so that callers of several processes interleave between them.   *)
(*                                                                         *)
(* Time is counted in ticks, TicksPerSec ticks to the second: time.Now()   *)
(* has a sub-second part, and time.RFC3339 prints whole seconds only.      *)
(*                                                                         *)
(* A stored string is modelled as the sequence of the fields that          *)
(* strings.Split(r, "|") yields; a field is the decimal text of an         *)
(* integer, the RFC3339 text of a second, or some other text.              *)
(*                                                                         *)
(* The store is redis as go-redis presents it: a command either answers    *)
(* or fails with a store error, and a failed command has no effect.        *)
(***************************************************************************)
EXTENDS Integers, Sequences, FiniteSets, TLC

\* ---------------------------------------------------------------- bounds
MaxCalls == 3
MaxTime == 3
TicksPerSec == 2

Callers == {1, 2}
IPs == {"ip1", "ip2"}
\* the configurations: cfg.Capability, cfg.NewTokenAppendTime (a part of a
\* second, a second) and cfg.Duration, the last two in ticks
Caps == {1, 2}
AppendTimes == {1, TicksPerSec}
Durs == {MaxTime}

VARIABLES
    cfg,        \* the BucketConfigs handed to the constructor
    b,          \* the RedisBucket: cap, dur, tokenAppendTime
    clock,      \* the wall clock, in ticks
    store,      \* redis: key -> [present, val, exp]
    dirty,      \* caller -> its watched key changed since its WATCH
    pc,         \* caller -> where it is in Walk
    ip,         \* caller -> ctx.ClientIP()
    r,          \* caller -> the answer of its last GET
    tokens,     \* caller -> local tokens
    t,          \* caller -> local t
    p,          \* caller -> local p, time.Since(t) (-1 when not taken)
    add,        \* caller -> local add (0 when the refill did not run)
    now,        \* caller -> the last time.Now() of this attempt (-1: none)
    err,        \* caller -> the error of its last Watch
    result,     \* caller -> what its last call returned
    resp,       \* caller -> what WalkThrough did to the request
    attempts,   \* caller -> conditional writes this call has sent
    calls,      \* calls started so far
    active,     \* caller -> the identities its requests come from
    hist        \* per identity: what has been observed of its calls

locals == <<r, tokens, t, p, add, now>>
vars == <<cfg, b, clock, store, dirty, pc, ip, r, tokens, t, p, add, now,
          err, result, resp, attempts, calls, active, hist>>

\* ---------------------------------------------------------------- errors
ErrNil == "nil"
TxFailedErr == "redis.TxFailedErr"
ErrNoTokensAwailable == "no tokens awailable in bucket"
ErrBadSyntaxInStorage == "bad syntax in storage"
ErrAtoi == "strconv.Atoi: invalid syntax"
ErrParse == "time.Parse: cannot parse"
ErrStore == "store error"

\* ---------------------------------------------------------------- codec
Min(x, y) == IF x <= y THEN x ELSE y

IntText(n) == [kind |-> "int", v |-> n]
TimeText(s) == [kind |-> "time", v |-> s]
OtherText == [kind |-> "other", v |-> 0]

\* strconv.Itoa
Itoa(n) == IntText(n)

\* strconv.Atoi
Atoi(f) == IF f.kind = "int" THEN [v |-> f.v, err |-> ErrNil]
           ELSE [v |-> 0, err |-> ErrAtoi]

\* t.Format(time.RFC3339): the second the instant lies in
Format(tm) == TimeText(tm \div TicksPerSec)

\* time.Parse(time.RFC3339, s)
Parse(f) == IF f.kind = "time" THEN [v |-> f.v * TicksPerSec, err |-> ErrNil]
            ELSE [v |-> 0, err |-> ErrParse]

\* strconv.Itoa(tokens-1) + "|" + t.Format(time.RFC3339)
Encode(tk, tm) == <<Itoa(tk), Format(tm)>>

\* strings.Split, strconv.Atoi, time.Parse of lines 159-171
Decode(s) ==
    IF Len(s) # 2 THEN [tokens |-> 0, t |-> 0, err |-> ErrBadSyntaxInStorage]
    ELSE IF Atoi(s[1]).err # ErrNil
         THEN [tokens |-> 0, t |-> 0, err |-> Atoi(s[1]).err]
    ELSE IF Parse(s[2]).err # ErrNil
         THEN [tokens |-> Atoi(s[1]).v, t |-> 0, err |-> Parse(s[2]).err]
    ELSE [tokens |-> Atoi(s[1]).v, t |-> Parse(s[2]).v, err |-> ErrNil]

\* ----------------------------------------------------------- refill math
\* lines 179-182 with the clamp to the capacity left out
AddUnclamped(cap, tokenAppendTime, tk, el) == el \div tokenAppendTime

\* lines 179-182: add := int(p / b.tokenAppendTime); add = min(add, b.cap-tokens)
Add(cap, tokenAppendTime, tk, el) == Min(el \div tokenAppendTime, cap - tk)

\* line 195 with the shift taken backward
ShiftBack(tokenAppendTime, tm, a) == tm - a * tokenAppendTime

\* line 195: t.Add(time.Duration(add) * b.tokenAppendTime)
Shift(tokenAppendTime, tm, a) == tm + a * tokenAppendTime

\* line 177 with > for >=
CanAppendStrict(tokenAppendTime, el) == el > tokenAppendTime

\* line 177: the refill runs when a whole interval has passed
CanAppend(tokenAppendTime, el) == el >= tokenAppendTime

\* line 201
NoTokens(tk) == tk <= 0

\* lines 213-219 with every error repeated, not the conflict alone
RetriedAny(e) == e # ErrNil

\* lines 213-219: the error of one Watch either ends the loop or repeats it
Retried(e) == e = TxFailedErr

\* ---------------------------------------------------------------- state
NoAnswer == [nil |-> TRUE, val |-> <<>>]
Absent == [present |-> FALSE, val |-> <<>>, exp |-> 0]
NoHist == [start |-> -1, first |-> -1, admitted |-> 0, rejected |-> 0,
           failed |-> 0, expired |-> FALSE, by |-> 0, lastT |-> -1]

\* lines 22-29
MaxTokensCapDefault == 10
NewTokenAppendTimeDefault == 10 * TicksPerSec
DurationDefault == 30 * 60 * TicksPerSec

\* lines 50-64: the fields of BucketConfigs that the bucket keeps
Configs(c, d, a) == [Capability |-> c, Duration |-> d, NewTokenAppendTime |-> a]
\* the parameter cfg once the constructor has returned
NoCfg == [Capability |-> 0, Duration |-> 0, NewTokenAppendTime |-> 0]

\* lines 90-95 and 125-130: &RedisBucket{...}
Bucket(c, d, a) == [cap |-> c, dur |-> d, tokenAppendTime |-> a]
\* no bucket has been made yet (or none could be: nil)
NoBucket == Bucket(0, 0, 0)

\* lines 77, 81: the status and the abort of the request, and the write to
\* the logger
StatusTooManyRequests == 429
StatusInternalServerError == 500
NoResp == [aborted |-> FALSE, status |-> 0, logged |-> FALSE]

\* lines 75-82 with every error answered as a rate limit
WalkThroughAll429(e) ==
    IF e = ErrNil THEN NoResp
    ELSE [aborted |-> TRUE, status |-> StatusTooManyRequests, logged |-> FALSE]

\* limiter.WalkThrough, lines 75-82: what the handler does with the error
\* of Walk
WalkThrough(e) ==
    IF e = ErrNil THEN NoResp
    ELSE IF e = ErrNoTokensAwailable
         THEN [aborted |-> TRUE, status |-> StatusTooManyRequests,
               logged |-> FALSE]
    ELSE [aborted |-> TRUE, status |-> StatusInternalServerError,
          logged |-> TRUE]

Key(c) == ip[c]
Watching(c) == pc[c] \in {"get", "absent", "since", "full", "exec"}

\* the locals of the closure, before its first statement
Fresh(c) ==
    /\ r' = [r EXCEPT ![c] = NoAnswer]
    /\ tokens' = [tokens EXCEPT ![c] = 0]
    /\ t' = [t EXCEPT ![c] = 0]
    /\ p' = [p EXCEPT ![c] = -1]
    /\ add' = [add EXCEPT ![c] = 0]
    /\ now' = [now EXCEPT ![c] = -1]

InitCallers ==
    /\ clock = 0
    /\ dirty = [c \in Callers |-> FALSE]
    /\ pc = [c \in Callers |-> "idle"]
    /\ ip = [c \in Callers |-> "ip1"]
    /\ r = [c \in Callers |-> NoAnswer]
    /\ tokens = [c \in Callers |-> 0]
    /\ t = [c \in Callers |-> 0]
    /\ p = [c \in Callers |-> -1]
    /\ add = [c \in Callers |-> 0]
    /\ now = [c \in Callers |-> -1]
    /\ err = [c \in Callers |-> "none"]
    /\ result = [c \in Callers |-> "none"]
    /\ resp = [c \in Callers |-> NoResp]
    /\ attempts = [c \in Callers |-> 0]
    /\ calls = 0
    /\ hist = [k \in IPs |-> NoHist]

Init ==
    /\ cfg \in {Configs(c, d, a) : c \in Caps, d \in Durs, a \in AppendTimes}
    /\ b = NoBucket
    /\ store = [k \in IPs |-> Absent]
    /\ active = [c \in Callers |-> {"ip1"}]
    /\ InitCallers

\* ---------------------------------------------------------------- steps
Count(h, e) ==
    IF e = ErrNil THEN [h EXCEPT !.admitted = @ + 1]
    ELSE IF e = ErrNoTokensAwailable THEN [h EXCEPT !.rejected = @ + 1]
    ELSE [h EXCEPT !.failed = @ + 1]

\* a commit that breaks no watch
TouchedNone(c, k) == {}

\* a commit that breaks the watches of every key
TouchedAll(c, k) == {q \in Callers \ {c} : Watching(q)}

\* the watches that a change of key k breaks, caller c's own apart
Touched(c, k) == {q \in Callers \ {c} : Watching(q) /\ ip[q] = k}

\* lines 213-222: what the loop does with the error of one Watch: repeat it
\* on a conflict, return anything else (nil too) to the caller.  The Watch
\* is over either way; `touched` are the other watches this step broke and
\* h is what has been observed of the identity, this step included.
Loop(c, e, touched, h) ==
    /\ err' = [err EXCEPT ![c] = e]
    /\ dirty' = [q \in Callers |->
                   IF q = c THEN FALSE ELSE (q \in touched) \/ dirty[q]]
    /\ IF Retried(e)
       THEN /\ pc' = [pc EXCEPT ![c] = "watch"]
            /\ result' = result
            /\ resp' = resp
            /\ hist' = [hist EXCEPT ![Key(c)] = h]
       ELSE /\ pc' = [pc EXCEPT ![c] = "done"]
            /\ result' = [result EXCEPT ![c] = e]
            /\ resp' = [resp EXCEPT ![c] = WalkThrough(e)]
            /\ hist' = [hist EXCEPT ![Key(c)] = Count(h, e)]

\* lines 77-88 with < for <= in the test of the capacity
NewRedisBucketWithClientStrict ==
    /\ b = NoBucket
    /\ cfg # NoCfg
    /\ b' = Bucket(IF cfg.Capability < 0
                   THEN MaxTokensCapDefault ELSE cfg.Capability,
                   IF cfg.Duration <= 0
                   THEN DurationDefault ELSE cfg.Duration,
                   IF cfg.NewTokenAppendTime <= 0
                   THEN NewTokenAppendTimeDefault ELSE cfg.NewTokenAppendTime)
    /\ cfg' = NoCfg
    /\ UNCHANGED <<clock, store, dirty, pc, ip, locals, err, result, resp,
                   attempts, calls, active, hist>>

\* lines 77-96: the bucket over a client that exists
NewRedisBucketWithClient ==
    /\ b = NoBucket
    /\ cfg # NoCfg
    /\ b' = Bucket(IF cfg.Capability <= 0
                   THEN MaxTokensCapDefault ELSE cfg.Capability,
                   IF cfg.Duration <= 0
                   THEN DurationDefault ELSE cfg.Duration,
                   IF cfg.NewTokenAppendTime <= 0
                   THEN NewTokenAppendTimeDefault ELSE cfg.NewTokenAppendTime)
    /\ cfg' = NoCfg
    /\ UNCHANGED <<clock, store, dirty, pc, ip, locals, err, result, resp,
                   attempts, calls, active, hist>>

\* lines 101-131: the bucket over a new client that answers the ping
NewRedisBucket ==
    /\ b = NoBucket
    /\ cfg # NoCfg
    /\ b' = Bucket(IF cfg.Capability <= 0
                   THEN MaxTokensCapDefault ELSE cfg.Capability,
                   IF cfg.Duration <= 0
                   THEN DurationDefault ELSE cfg.Duration,
                   IF cfg.NewTokenAppendTime <= 0
                   THEN NewTokenAppendTimeDefault ELSE cfg.NewTokenAppendTime)
    /\ cfg' = NoCfg
    /\ UNCHANGED <<clock, store, dirty, pc, ip, locals, err, result, resp,
                   attempts, calls, active, hist>>

\* lines 109-111: the ping fails, and NewRedisBucket returns nil and the error
NewRedisBucketErr ==
    /\ b = NoBucket
    /\ cfg # NoCfg
    /\ cfg' = NoCfg
    /\ UNCHANGED <<b, clock, store, dirty, pc, ip, locals, err, result, resp,
                   attempts, calls, active, hist>>

\* line 141: a request of identity k enters Walk
Walk(c, k) ==
    /\ b # NoBucket
    /\ pc[c] \in {"idle", "done"}
    /\ calls < MaxCalls
    /\ k \in active[c]
    /\ calls' = calls + 1
    /\ ip' = [ip EXCEPT ![c] = k]
    /\ pc' = [pc EXCEPT ![c] = "watch"]
    /\ Fresh(c)
    /\ err' = [err EXCEPT ![c] = "none"]
    /\ result' = [result EXCEPT ![c] = "none"]
    /\ resp' = [resp EXCEPT ![c] = NoResp]
    /\ attempts' = [attempts EXCEPT ![c] = 0]
    /\ hist' = [k2 \in IPs |->
                  [hist[k2] EXCEPT
                     !.start = IF k2 = k /\ @ = -1 THEN clock ELSE @,
                     !.by = IF @ = c THEN 0 ELSE @]]
    /\ UNCHANGED <<cfg, b, clock, store, dirty, active>>

\* line 150, go-redis Watch: WATCH key
Watch(c) ==
    /\ pc[c] = "watch"
    /\ pc' = [pc EXCEPT ![c] = "get"]
    /\ dirty' = [dirty EXCEPT ![c] = FALSE]
    /\ Fresh(c)
    /\ UNCHANGED <<cfg, b, clock, store, ip, err, result, resp, attempts,
                   calls, active, hist>>

\* line 150: WATCH fails with a store error
WatchErr(c) ==
    /\ pc[c] = "watch"
    /\ Loop(c, ErrStore, {}, hist[Key(c)])
    /\ UNCHANGED <<cfg, b, clock, store, ip, locals, attempts, calls, active>>

\* lines 201-204 with the refilled record saved before the rejection
DecidePersist(c, tk) ==
    IF NoTokens(tk)
    THEN /\ store' = [store EXCEPT ![ip[c]] =
                [present |-> TRUE, val |-> Encode(tk, t'[c]),
                 exp |-> clock + b.dur]]
         /\ Loop(c, ErrNoTokensAwailable, {}, hist[ip[c]])
    ELSE /\ store' = store
         /\ pc' = [pc EXCEPT ![c] = "exec"]
         /\ UNCHANGED <<dirty, err, result, resp, hist>>

\* lines 201-204 once tokens and t are settled: return ErrNoTokensAwailable
\* with nothing written, or go on to the conditional write
Decide(c, tk) ==
    /\ store' = store
    /\ IF NoTokens(tk)
       THEN Loop(c, ErrNoTokensAwailable, {}, hist[Key(c)])
       ELSE /\ pc' = [pc EXCEPT ![c] = "exec"]
            /\ UNCHANGED <<dirty, err, result, resp, hist>>

\* lines 151-171: GET answers; a missing key, a malformed value, a record
Get(c) ==
    /\ pc[c] = "get"
    /\ LET s == store[Key(c)]
           d == Decode(s.val)
       IN  IF ~s.present
           THEN \* redis.Nil: lines 153-157 go on to time.Now()
                /\ r' = [r EXCEPT ![c] = NoAnswer]
                /\ pc' = [pc EXCEPT ![c] = "absent"]
                /\ UNCHANGED <<store, tokens, t, dirty, err, result, resp, hist>>
           ELSE /\ r' = [r EXCEPT ![c] = [nil |-> FALSE, val |-> s.val]]
                /\ IF d.err # ErrNil
                   THEN /\ Loop(c, d.err, {}, hist[Key(c)])
                        /\ UNCHANGED <<store, tokens, t>>
                   ELSE /\ tokens' = [tokens EXCEPT ![c] = d.tokens]
                        /\ t' = [t EXCEPT ![c] = d.t]
                        /\ IF d.tokens < b.cap
                           THEN /\ pc' = [pc EXCEPT ![c] = "since"]
                                /\ UNCHANGED <<store, dirty, err, result, resp,
                                               hist>>
                           ELSE Decide(c, d.tokens)
    /\ UNCHANGED <<cfg, b, clock, ip, p, add, now, attempts, calls, active>>

\* line 151: GET fails with a store error
GetErr(c) ==
    /\ pc[c] = "get"
    /\ Loop(c, ErrStore, {}, hist[Key(c)])
    /\ UNCHANGED <<cfg, b, clock, store, ip, locals, attempts, calls, active>>

\* lines 156-157: the key is missing
NowAbsent(c) ==
    /\ pc[c] = "absent"
    /\ tokens' = [tokens EXCEPT ![c] = b.cap]
    /\ t' = [t EXCEPT ![c] = clock]
    /\ now' = [now EXCEPT ![c] = clock]
    /\ pc' = [pc EXCEPT ![c] = "exec"]
    /\ UNCHANGED <<cfg, b, clock, store, dirty, ip, r, p, add, err, result, resp,
                   attempts, calls, active, hist>>

\* lines 175-203: time.Since(t) and the refill it allows
Since(c) ==
    /\ pc[c] = "since"
    /\ p' = [p EXCEPT ![c] = clock - t[c]]
    /\ LET a == Add(b.cap, b.tokenAppendTime, tokens[c], clock - t[c])
       IN  IF CanAppend(b.tokenAppendTime, clock - t[c])
           THEN /\ add' = [add EXCEPT ![c] = a]
                /\ tokens' = [tokens EXCEPT ![c] = tokens[c] + a]
                /\ IF tokens[c] + a = b.cap
                   THEN \* line 193 reads the clock once more
                        /\ pc' = [pc EXCEPT ![c] = "full"]
                        /\ UNCHANGED <<store, t, dirty, err, result, resp, hist>>
                   ELSE /\ t' = [t EXCEPT ![c] =
                                   Shift(b.tokenAppendTime, t[c], a)]
                        /\ Decide(c, tokens[c] + a)
           ELSE /\ UNCHANGED <<add, tokens, t>>
                /\ Decide(c, tokens[c])
    /\ UNCHANGED <<cfg, b, clock, ip, r, now, attempts, calls, active>>

\* line 193: t = time.Now(), then lines 201-203
NowFull(c) ==
    /\ pc[c] = "full"
    /\ t' = [t EXCEPT ![c] = clock]
    /\ now' = [now EXCEPT ![c] = clock]
    /\ Decide(c, tokens[c])
    /\ UNCHANGED <<cfg, b, clock, ip, r, tokens, p, add, attempts, calls,
                   active>>

\* what a committed write leaves to be observed of identity k
ExpiryShort(tm, dur) == tm + 1

\* line 207: the instant a key set at tm with expiration dur goes away
Expiry(tm, dur) == tm + dur

Committed(h, c, tm, val) ==
    [h EXCEPT !.first = IF @ = -1 THEN tm ELSE @,
              !.by = c,
              !.lastT = Decode(val).t]

\* lines 206-210: MULTI, SET key value EX dur, EXEC.  The transaction is
\* discarded when the watched key changed since WATCH (redis.TxFailedErr);
\* otherwise the record is written and every other watch of the key breaks.
Exec(c) ==
    /\ pc[c] = "exec"
    /\ attempts' = [attempts EXCEPT ![c] = @ + 1]
    /\ LET k == Key(c)
           val == Encode(tokens[c] - 1, t[c])
       IN  IF dirty[c]
           THEN /\ Loop(c, TxFailedErr, {}, hist[k])
                /\ store' = store
           ELSE /\ store' = [store EXCEPT ![k] =
                      [present |-> TRUE, val |-> val,
                       exp |-> Expiry(clock, b.dur)]]
                /\ Loop(c, ErrNil, Touched(c, k),
                        Committed(hist[k], c, t[c], val))
    /\ UNCHANGED <<cfg, b, clock, ip, locals, calls, active>>

\* lines 206-210: the transaction fails with a store error
ExecErr(c) ==
    /\ pc[c] = "exec"
    /\ attempts' = [attempts EXCEPT ![c] = @ + 1]
    /\ Loop(c, ErrStore, {}, hist[Key(c)])
    /\ UNCHANGED <<cfg, b, clock, store, ip, locals, calls, active>>

\* the keys whose expiry falls at instant tm
Expiring(tm) == {k \in IPs : store[k].present /\ tm >= store[k].exp}

\* time passes; redis deletes the records whose expiry has come.  Whether
\* an expiry breaks the watches of the key depends on the redis version
\* (it does since 6.0.9), so both happen.
Tick(touch) ==
    /\ clock < MaxTime
    /\ clock' = clock + 1
    /\ touch => Expiring(clock + 1) # {}
    /\ store' = [k \in IPs |->
                   IF k \in Expiring(clock + 1) THEN Absent ELSE store[k]]
    /\ hist' = [k \in IPs |->
                  IF k \in Expiring(clock + 1)
                  THEN [hist[k] EXCEPT !.expired = TRUE, !.by = 0]
                  ELSE hist[k]]
    /\ dirty' = [q \in Callers |->
                   dirty[q] \/ (touch /\ Watching(q)
                                /\ ip[q] \in Expiring(clock + 1))]
    /\ UNCHANGED <<cfg, b, pc, ip, locals, err, result, resp, attempts, calls,
                   active>>

Next ==
    \/ NewRedisBucketWithClient
    \/ NewRedisBucket
    \/ NewRedisBucketErr
    \/ \E c \in Callers, k \in IPs : Walk(c, k)
    \/ \E c \in Callers : Watch(c)
    \/ \E c \in Callers : WatchErr(c)
    \/ \E c \in Callers : Get(c)
    \/ \E c \in Callers : GetErr(c)
    \/ \E c \in Callers : NowAbsent(c)
    \/ \E c \in Callers : Since(c)
    \/ \E c \in Callers : NowFull(c)
    \/ \E c \in Callers : Exec(c)
    \/ \E c \in Callers : ExecErr(c)
    \/ \E touch \in BOOLEAN : Tick(touch)

Spec == Init /\ [][Next]_vars

\* a store that already holds a value for ip1: a record of this bucket, a
\* record of a bucket of a larger capacity (the key does not depend on the
\* configuration), or a value that some other writer left under the key
StoredValues ==
    { <<Itoa(0), Format(0)>>,
      <<Itoa(2), Format(0)>>,
      <<OtherText>>,
      <<Itoa(0), Format(0), OtherText>>,
      <<OtherText, Format(0)>>,
      <<Itoa(0), OtherText>> }

InitStored ==
    /\ cfg \in {Configs(c, d, a) : c \in Caps, d \in Durs, a \in AppendTimes}
    /\ b = NoBucket
    /\ \E v \in StoredValues :
         store = [k \in IPs |->
                    IF k = "ip1"
                    THEN [present |-> TRUE, val |-> v,
                          exp |-> Expiry(0, cfg.Duration)]
                    ELSE Absent]
    /\ active = [c \in Callers |-> {"ip1"}]
    /\ InitCallers

SpecStored == InitStored /\ [][Next]_vars

\* the configurations handed to a constructor: each field unset (0),
\* negative, or set
CfgInputs ==
    {Configs(c, d, a) : c \in {-1, 0, 1}, d \in {-1, 0, MaxTime},
                        a \in {-1, 0, TicksPerSec}} \ {NoCfg}

InitCfg ==
    /\ cfg \in CfgInputs
    /\ b = NoBucket
    /\ store = [k \in IPs |-> Absent]
    /\ active = [c \in Callers |-> {"ip1"}]
    /\ InitCallers

SpecCfg == InitCfg /\ [][Next]_vars

\* requests of two identities, each through a process of its own
InitTwo ==
    /\ cfg \in {Configs(c, d, TicksPerSec) : c \in Caps, d \in Durs}
    /\ b = NoBucket
    /\ store = [k \in IPs |-> Absent]
    /\ active = [c \in Callers |-> IF c = 1 THEN {"ip1"} ELSE {"ip2"}]
    /\ InitCallers

SpecTwo == InitTwo /\ [][Next]_vars

\* the steps of the call of caller c in which the store answers
Run(c) ==
    \/ Watch(c)
    \/ Get(c)
    \/ NowAbsent(c)
    \/ Since(c)
    \/ NowFull(c)
    \/ Exec(c)

\* a goroutine inside Walk goes on, and the store answers in the end
Fairness == \A c \in Callers : WF_vars(Run(c))

\* the ticks the clock still has when the calls of SpecFair begin
FairTicks == 1

\* one identity, and the smallest bucket: every call after the first meets
\* an empty bucket, a refill or an expired record.  The wall clock stands
\* at some time of the day.
InitFair ==
    /\ cfg = Configs(1, 1, 1)
    /\ b = NoBucket
    /\ store = [k \in IPs |-> Absent]
    /\ active = [c \in Callers |-> {"ip1"}]
    /\ clock = MaxTime - FairTicks
    /\ dirty = [c \in Callers |-> FALSE]
    /\ pc = [c \in Callers |-> "idle"]
    /\ ip = [c \in Callers |-> "ip1"]
    /\ r = [c \in Callers |-> NoAnswer]
    /\ tokens = [c \in Callers |-> 0]
    /\ t = [c \in Callers |-> 0]
    /\ p = [c \in Callers |-> -1]
    /\ add = [c \in Callers |-> 0]
    /\ now = [c \in Callers |-> -1]
    /\ err = [c \in Callers |-> "none"]
    /\ result = [c \in Callers |-> "none"]
    /\ resp = [c \in Callers |-> NoResp]
    /\ attempts = [c \in Callers |-> 0]
    /\ calls = 0
    /\ hist = [k \in IPs |-> NoHist]

SpecFair == InitFair /\ [][Next]_vars /\ Fairness

\* ---------------------------------------------------------------- claims
\* the record stored for identity k, decoded
Rec(k) == Decode(store[k].val)
\* no call is under way
Quiet == \A c \in Callers : pc[c] \in {"idle", "done"}
\* the three cases of a malformed value: the separator does not occur
\* exactly once, the first field is no integer, the second no timestamp
Malformed(s) ==
    \/ Len(s) # 2
    \/ s[1].kind # "int"
    \/ s[2].kind # "time"
Failures == {ErrStore, ErrBadSyntaxInStorage, ErrAtoi, ErrParse}

\* C1: when N calls race on an identity whose bucket starts full with
\* capacity C < N, no refill interval passes from the first call to the
\* last return, the store reports no error and the record does not expire,
\* exactly C calls are admitted, N - C are rejected and the stored tokens
\* end at 0.
C1_ExactlyOnceUnderContention ==
    \A k \in IPs :
      LET h == hist[k]
          n == h.admitted + h.rejected
      IN  ( /\ Quiet
            /\ h.failed = 0
            /\ ~h.expired
            /\ h.start >= 0
            /\ clock - h.start < b.tokenAppendTime
            /\ n > b.cap )
          => /\ h.admitted = b.cap
             /\ h.rejected = n - b.cap
             /\ store[k].present
             /\ Rec(k).tokens = 0

\* C2: every record in the store decodes to tokens between 0 and the
\* capacity.
C2_Bounds ==
    \A k \in IPs :
      store[k].present =>
        /\ Rec(k).err = ErrNil
        /\ 0 <= Rec(k).tokens
        /\ Rec(k).tokens <= b.cap

\* a record with no token left, committed after a refill
C2_Witness ==
    \E k \in IPs :
      /\ store[k].present
      /\ Rec(k).tokens = 0
      /\ ~hist[k].expired
      /\ hist[k].admitted > b.cap

\* C3 as amended: the step in which a call returns ErrNoTokensAwailable
\* sends no conditional write and leaves every stored record and expiry as
\* it is, and the record in the store is not one this call wrote.
C3_NoChargeOnRejection ==
    [][ \A c \in Callers :
          (result[c] = "none" /\ result'[c] = ErrNoTokensAwailable)
          => /\ store' = store
             /\ attempts'[c] = attempts[c]
             /\ hist'[ip[c]].by # c ]_vars

\* a call rejected after an earlier attempt of it sent a conditional write
\* that the store refused as a conflict
C3_Witness ==
    \E c \in Callers :
      /\ pc[c] = "done"
      /\ result[c] = ErrNoTokensAwailable
      /\ attempts[c] > 0

\* C3 as stated: a call that returns ErrNoTokensAwailable has attempted no
\* write.
C3_Original ==
    \A c \in Callers :
      (pc[c] = "done" /\ result[c] = ErrNoTokensAwailable)
      => attempts[c] = 0

\* C4: the lastRefillTime of the records committed for one identity never
\* decreases from one committed record to the next.
C4_MonotonicRefillTime ==
    [][ \A k \in IPs : hist'[k].lastT >= hist[k].lastT ]_vars

\* several records committed, the last one with a later time than the first
C4_Witness ==
    \E k \in IPs :
      /\ hist[k].admitted >= 3
      /\ hist[k].lastT >= TicksPerSec
      /\ hist[k].lastT > hist[k].first

\* C5: a call that reads the record (r, t0) and takes time.Since at
\* t0 + k * tokenAppendTime has min(cap, r + k) tokens before it decides:
\* it is rejected exactly when that is 0, and the record it commits holds
\* one token less.
C5_RefillCorrectness ==
    \A c \in Callers :
      LET d == Decode(r[c].val)
          want == Min(b.cap, d.tokens + p[c] \div b.tokenAppendTime)
      IN  ( /\ ~r[c].nil
            /\ d.err = ErrNil
            /\ p[c] >= 0
            /\ p[c] % b.tokenAppendTime = 0 )
          => /\ tokens[c] = want
             /\ (pc[c] = "done" /\ want > 0 => result[c] # ErrNoTokensAwailable)
             /\ (pc[c] = "done" /\ want <= 0 => result[c] = ErrNoTokensAwailable)
             /\ (hist[ip[c]].by = c => Rec(ip[c]).tokens = want - 1)

\* a call admitted after k >= 1 whole intervals, whose record is stored
C5_Witness ==
    \E c \in Callers :
      /\ hist[ip[c]].by = c
      /\ ~r[c].nil
      /\ p[c] >= b.tokenAppendTime
      /\ p[c] % b.tokenAppendTime = 0
      /\ store[ip[c]].present

\* C6: when the refill of a call brings the tokens to the capacity, the
\* lastRefillTime of the record it commits is the instant it read from the
\* clock for it.
C6_FullBucketTimeReset ==
    \A k \in IPs :
      LET c == hist[k].by
      IN  (c # 0 /\ store[k].present /\ add[c] > 0 /\ tokens[c] = b.cap)
          => Rec(k).t = now[c]

\* C7: the record a call commits decodes to the very pair it encoded.
C7_CodecRoundTrip ==
    \A k \in IPs :
      LET c == hist[k].by
      IN  (c # 0 /\ store[k].present)
          => Rec(k) = [tokens |-> tokens[c] - 1, t |-> t[c], err |-> ErrNil]

\* C8: a call that reads a malformed value returns ErrBadSyntaxInStorage.
C8_MalformedRecordKind ==
    \A c \in Callers :
      (pc[c] = "done" /\ ~r[c].nil /\ Malformed(r[c].val))
      => result[c] = ErrBadSyntaxInStorage

\* C9: a conflict is never returned and leaves the call running; any
\* other error of a Watch ends the call at once with that error, and the
\* record in the store is not one a failed call wrote.
C9_OnlyConflictRetried ==
    \A c \in Callers :
      /\ result[c] # TxFailedErr
      /\ (pc[c] = "done" => result[c] = err[c])
      /\ (err[c] = TxFailedErr => pc[c] \in {"watch", "get", "absent",
                                            "since", "full", "exec"})
      /\ (err[c] \notin {"none", TxFailedErr} => pc[c] = "done")
      /\ (result[c] \in Failures => hist[ip[c]].by # c)

\* one call repeating after a conflict while another has been ended by a
\* store error
C9_Witness ==
    \E c, q \in Callers :
      /\ err[c] = TxFailedErr
      /\ pc[c] = "get"
      /\ pc[q] = "done"
      /\ result[q] = ErrStore

\* C10: for a fresh identity (no store error, no expiry) no call is
\* rejected before cap calls were admitted; less than a refill interval
\* after the first call at most cap calls are admitted, the stored tokens
\* going cap-1, ..., 0; and a call that reads the clock a refill interval
\* or more after the first call, the record still carrying that call's
\* time, is not rejected.
C10_BurstThenReject ==
    \A k \in IPs :
      LET h == hist[k]
      IN  (h.failed = 0 /\ ~h.expired /\ h.first >= 0)
          => /\ (h.rejected > 0 => h.admitted >= b.cap)
             /\ (clock - h.first < b.tokenAppendTime
                 => /\ h.admitted <= b.cap
                    /\ store[k].present
                    /\ Rec(k).tokens = b.cap - h.admitted)
             /\ \A c \in Callers :
                  ( /\ ip[c] = k
                    /\ ~r[c].nil
                    /\ p[c] >= 0
                    /\ Decode(r[c].val).t <= h.first
                    /\ Decode(r[c].val).t + p[c] >= h.first + b.tokenAppendTime )
                  => result[c] # ErrNoTokensAwailable

\* the last GET of caller c found no key and lines 156-157 ran
AbsentRead(c) == r[c].nil /\ now[c] >= 0

\* C11: a call that finds the key absent (never written, or expired) does
\* not run the refill, has cap tokens and is not rejected, and the record it
\* commits is (cap - 1, now) with expiry dur from the commit.
C11_AbsentMeansFull ==
    \A c \in Callers :
      AbsentRead(c) =>
        /\ tokens[c] = b.cap
        /\ p[c] = -1
        /\ add[c] = 0
        /\ result[c] # ErrNoTokensAwailable
        /\ (hist[ip[c]].by = c /\ store[ip[c]].present =>
              /\ result[c] = ErrNil
              /\ Rec(ip[c]).tokens = b.cap - 1
              /\ Rec(ip[c]).t = now[c]
              /\ store[ip[c]].exp >= now[c] + b.dur
              /\ store[ip[c]].exp <= clock + b.dur)

\* C16: when the refill of a call adds add >= 1 tokens and the tokens stay
\* below the capacity, the lastRefillTime of the record it commits is the
\* lastRefillTime it read plus add * tokenAppendTime.
C16_PartialRefillKeepsProgress ==
    \A k \in IPs :
      LET c == hist[k].by
      IN  (c # 0 /\ store[k].present /\ ~r[c].nil /\ add[c] >= 1
           /\ tokens[c] < b.cap)
          => Rec(k).t = Decode(r[c].val).t + add[c] * b.tokenAppendTime

\* C17: while the record of an identity has not expired, the calls admitted
\* from the first call (at s) up to now (s + T) number at most
\* cap + floor(T / tokenAppendTime).
C17_RateBound ==
    \A k \in IPs :
      (hist[k].start >= 0 /\ ~hist[k].expired)
      => hist[k].admitted
           <= b.cap + (clock - hist[k].start) \div b.tokenAppendTime

\* the clock value the computation of caller c used: its time.Now(), or
\* else the instant of its time.Since
UsedNow(c) == IF now[c] >= 0 THEN now[c] ELSE Decode(r[c].val).t + p[c]

\* C19: the lastRefillTime t of a committed record satisfies
\* 0 <= now - t < tokenAppendTime for the clock value now its call used.
C19_BoundedStoredCredit ==
    \A k \in IPs :
      LET c == hist[k].by
      IN  (c # 0 /\ store[k].present)
          => /\ 0 <= UsedNow(c) - Rec(k).t
             /\ UsedNow(c) - Rec(k).t < b.tokenAppendTime

\* the tokens a record would hold after a refill at tm
Refilled(rec, tm) ==
    Min(b.cap, rec.tokens + (tm - rec.t) \div b.tokenAppendTime)

\* C20: when dur >= cap * tokenAppendTime, a record that expires would, at
\* that moment, already refill to cap tokens: the deletion gives the
\* identity no more tokens than keeping the record would.
C20_ExpiryGrantsNothing ==
    [][\A k \in IPs :
         (/\ b.dur >= b.cap * b.tokenAppendTime
          /\ store[k].present
          /\ ~Malformed(store[k].val)
          /\ ~store'[k].present)
         => Refilled(Rec(k), clock') = b.cap]_vars

C20_Witness ==
    \E k \in IPs :
      /\ b.dur >= b.cap * b.tokenAppendTime
      /\ hist[k].expired
      /\ hist[k].admitted >= 1
      /\ ~store[k].present

\* the step in which caller c commits its write
CommitStep(c) == pc[c] = "exec" /\ pc'[c] = "done" /\ result'[c] = ErrNil

\* the tokens lines 156-185 compute from the content rcd of a key when the
\* elapsed time measured is el
PostRefill(rcd, el) ==
    IF ~rcd.present THEN b.cap
    ELSE LET d == Decode(rcd.val)
         IN  IF d.tokens < b.cap /\ CanAppend(b.tokenAppendTime, el)
             THEN d.tokens + Add(b.cap, b.tokenAppendTime, d.tokens, el)
             ELSE d.tokens

\* what caller c read is what the store holds for its key
ReadIsCurrent(c) ==
    /\ r[c].nil <=> ~store[Key(c)].present
    /\ store[Key(c)].present => r[c].val = store[Key(c)].val

\* what caller c read is a record that has expired since, and none was
\* written after it
ReadHasExpired(c) ==
    /\ ~r[c].nil
    /\ ~store[Key(c)].present
    /\ hist[Key(c)].expired
    /\ Decode(r[c].val).t = hist[Key(c)].lastT \/ hist[Key(c)].lastT = -1

\* C15 as stated: every committed write stores (post-refill tokens - 1)
\* computed from the record that is in the store immediately before the
\* commit.
C15_Original ==
    [][\A c \in Callers :
         CommitStep(c) =>
           /\ ReadIsCurrent(c)
           /\ Rec(Key(c))'.tokens = PostRefill(store[Key(c)], p[c]) - 1]_vars

\* C15: every committed write stores (post-refill tokens - 1) computed from
\* the last content of the key: the record in the store immediately before
\* the commit or, when the key is absent then, possibly the record that
\* expired while the call was watching.  No write is computed from a
\* record that another call has overwritten.
C15_NoLostUpdate ==
    [][\A c \in Callers :
         CommitStep(c) =>
           \/ /\ ReadIsCurrent(c)
              /\ Rec(Key(c))'.tokens = PostRefill(store[Key(c)], p[c]) - 1
           \/ /\ ReadHasExpired(c)
              /\ Rec(Key(c))'.tokens
                   = PostRefill([present |-> TRUE, val |-> r[c].val], p[c]) - 1
       ]_vars

\* a call committed after another call had committed to the same key during
\* the first call
C15_Witness ==
    \E c \in Callers :
      /\ pc[c] = "done"
      /\ result[c] = ErrNil
      /\ attempts[c] >= 2
      /\ hist[Key(c)].by = c
      /\ hist[Key(c)].admitted >= 2

\* C13: the request is aborted with 429 exactly when Walk returned
\* ErrNoTokensAwailable, with 500, after a write to the logger, for every
\* other error, and is left to proceed exactly when Walk returned nil.
C13_OutcomeMapping ==
    \A c \in Callers :
      pc[c] = "done" =>
        /\ resp[c].status = StatusTooManyRequests
             <=> result[c] = ErrNoTokensAwailable
        /\ (resp[c].status = StatusInternalServerError /\ resp[c].logged)
             <=> result[c] \notin {ErrNil, ErrNoTokensAwailable}
        /\ ~resp[c].aborted <=> result[c] = ErrNil
        /\ resp[c].logged => resp[c].status = StatusInternalServerError
        /\ resp[c].aborted
             => resp[c].status \in {StatusTooManyRequests,
                                    StatusInternalServerError}

\* the three outcomes have been seen: 429, 500 for a store error and for a
\* malformed record, and a request that proceeds
C13_Witness ==
    /\ \E c \in Callers :
         /\ pc[c] = "done"
         /\ result[c] \in {ErrBadSyntaxInStorage, ErrAtoi, ErrParse, ErrStore}
         /\ resp[c].status = StatusInternalServerError
    /\ \E c \in Callers :
         /\ pc[c] = "done"
         /\ result[c] \in {ErrNil, ErrNoTokensAwailable}
         /\ resp[c].status # StatusInternalServerError

\* C14: a constructor replaces each of Capability, NewTokenAppendTime and
\* Duration by its default (10, 10 s, 30 min) exactly when it is <= 0 and
\* keeps a positive value, so that the three are > 0 in every bucket.
C14_ConfigDefaults ==
    [][(b = NoBucket /\ b' # NoBucket) =>
         /\ b'.cap = IF cfg.Capability <= 0 THEN 10 ELSE cfg.Capability
         /\ b'.tokenAppendTime
              = IF cfg.NewTokenAppendTime <= 0
                THEN 10 * TicksPerSec ELSE cfg.NewTokenAppendTime
         /\ b'.dur = IF cfg.Duration <= 0
                     THEN 30 * 60 * TicksPerSec ELSE cfg.Duration
         /\ b'.cap > 0 /\ b'.tokenAppendTime > 0 /\ b'.dur > 0]_vars

\* a bucket made from a configuration with a default and a kept value has
\* served a call
C14_Witness ==
    /\ b.cap = MaxTokensCapDefault
    /\ b.dur = MaxTime
    /\ b.tokenAppendTime = NewTokenAppendTimeDefault
    /\ calls >= 1

\* caller c takes the step
StepOf(c) == pc'[c] # pc[c]

\* C12: a step of a call for identity A reads and writes only A's key: it
\* leaves the record of every other identity as it is, what it reads is
\* the content of A's key, and it breaks no watch of another identity's
\* key, so that a commit for A causes no conflict or retry for B.
C12_IdentityIndependence ==
    [][\A c \in Callers :
         StepOf(c) =>
           /\ \A k \in IPs \ {ip'[c]} : store'[k] = store[k]
           /\ \A q \in Callers \ {c} :
                ip[q] # ip'[c] =>
                  /\ dirty'[q] = dirty[q]
                  /\ pc'[q] = pc[q]
           /\ (pc[c] = "get" /\ pc'[c] \in {"absent", "since", "exec"})
                => /\ r'[c].nil <=> ~store[ip[c]].present
                   /\ ~r'[c].nil => r'[c].val = store[ip[c]].val]_vars

\* a call for one identity committed while a call for the other was
\* watching, and that one committed at its first attempt too
C12_Witness ==
    \E c, q \in Callers :
      /\ ip[c] # ip[q]
      /\ hist[ip[c]].by = c
      /\ hist[ip[q]].by = q
      /\ attempts[c] = 1
      /\ attempts[q] = 1
      /\ hist[ip[c]].first = hist[ip[q]].first

\* the call of caller c has returned: admitted or rejected, unless the
\* store failed
Answered(c) ==
    /\ pc[c] = "done"
    /\ result[c] \in {ErrNil, ErrNoTokensAwailable, ErrStore}
    /\ result[c] = ErrStore => hist[Key(c)].failed > 0

\* the watch of caller q breaks in this step
Breaks(q) == Watching(q) /\ ~dirty[q] /\ dirty'[q]

\* another call commits to the key of caller q in this step
CommitOnKey(q) ==
    \E c \in Callers \ {q} : CommitStep(c) /\ Key(c) = Key(q)

\* the record of caller q's key expires in this step
ExpiryOnKey(q) ==
    /\ clock' = clock + 1
    /\ store[Key(q)].present
    /\ ~store'[Key(q)].present

\* a conditional write is refused only to a call whose watch is broken
ConflictOnlyIfBroken ==
    \A c \in Callers :
      (pc[c] = "exec" /\ err'[c] = TxFailedErr /\ pc'[c] = "watch")
      => dirty[c]

\* C18 as stated: every call returns in the end, and each conflict of a
\* call comes from a change of the key committed by another call.
C18_Original ==
    /\ \A c \in Callers : (pc[c] = "watch") ~> Answered(c)
    /\ [][/\ ConflictOnlyIfBroken
          /\ \A q \in Callers : Breaks(q) => CommitOnKey(q)]_vars

\* C18: with finitely many calls on one identity and a store that answers,
\* every call returns in the end, admitted or rejected; each conflict of a
\* call comes from a change of its key since its WATCH, which is a commit
\* of another call or the expiry of the record, and neither can go on for
\* ever.
C18_RetryProgress ==
    /\ \A c \in Callers : (pc[c] = "watch") ~> Answered(c)
    /\ [][/\ ConflictOnlyIfBroken
          /\ \A q \in Callers :
               Breaks(q) => CommitOnKey(q) \/ ExpiryOnKey(q)]_vars

\* a call was refused its conditional write, tried again and was answered
C18_Witness ==
    \E c \in Callers :
      /\ pc[c] = "done"
      /\ result[c] \in {ErrNil, ErrNoTokensAwailable}
      /\ attempts[c] >= 2
      /\ hist[Key(c)].failed = 0

====
